---- MODULE Spec2Model ----
(***************************************************************************)
(* The thenvoi-mcp tools: recipient resolution and message sending, event  *)
(* and chat creation, adding participants, and the server's key type.      *)
(*                                                                         *)
(* A Python str is a sequence of one-character strings.  None and a        *)
(* missing attribute are two distinguished values.  A dict is the          *)
(* sequence of its (key, value) items in insertion order.  Every tool      *)
(* invocation is cut at its upstream API calls: one action per upstream    *)
(* call together with the code that follows it up to the next call.        *)
(***************************************************************************)
EXTENDS Integers, Sequences, FiniteSets, TLC

\* ------------------------------------------------------------------ bounds
MaxLen == 3
MaxParticipants == 2

\* ----------------------------------------------------------------- strings
Alphabet == {"a", "A", "b", ",", " "}

None == <<"None">>
Absent == <<"Absent">>

StrOfLen(n) == [1..n -> Alphabet]
Str == UNION {StrOfLen(n) : n \in 0..MaxLen}

\* Python truthiness of an attribute value that is None, missing or a str.
Truthy(s) == s # None /\ s # Absent /\ s # <<>>

UpperCase == <<"A", "B", "C", "D", "E", "F", "G", "H", "I", "J", "K", "L", "M",
               "N", "O", "P", "Q", "R", "S", "T", "U", "V", "W", "X", "Y", "Z">>
LowerCase == <<"a", "b", "c", "d", "e", "f", "g", "h", "i", "j", "k", "l", "m",
               "n", "o", "p", "q", "r", "s", "t", "u", "v", "w", "x", "y", "z">>
LowerChar(c) ==
    IF \E i \in 1..26 : UpperCase[i] = c
    THEN LowerCase[CHOOSE i \in 1..26 : UpperCase[i] = c]
    ELSE c
lower(s) == [i \in 1..Len(s) |-> LowerChar(s[i])]

strip(s) ==
    LET keep == {i \in 1..Len(s) : s[i] # " "}
        lo == CHOOSE i \in keep : \A j \in keep : i <= j
        hi == CHOOSE i \in keep : \A j \in keep : j <= i
    IN IF keep = {} THEN <<>> ELSE SubSeq(s, lo, hi)

RECURSIVE split(_)
split(s) ==
    LET commas == {i \in 1..Len(s) : s[i] = ","}
        c == CHOOSE i \in commas : \A j \in commas : i <= j
    IN IF commas = {} THEN <<s>>
       ELSE <<SubSeq(s, 1, c - 1)>> \o split(SubSeq(s, c + 1, Len(s)))

\* The elements of s at the positions idx, in their order: the result of a
\* list comprehension with a condition.
Pick(s, idx) ==
    LET Nth(k) == CHOOSE i \in idx : Cardinality({j \in idx : j < i}) = k - 1
    IN [k \in 1..Cardinality(idx) |-> s[Nth(k)]]

\* -------------------------------------------------------------------- dict
DictKeys(d) == [i \in 1..Len(d) |-> d[i].key]
DictHas(d, k) == \E i \in 1..Len(d) : d[i].key = k
DictGet(d, k) == d[CHOOSE i \in 1..Len(d) : d[i].key = k].val
\* Mutant: a key that is already present keeps its first value.
DictSetDefault(d, k, v) ==
    IF DictHas(d, k) THEN d ELSE Append(d, [key |-> k, val |-> v])

\* d[k] = v
DictSet(d, k, v) ==
    IF DictHas(d, k)
    THEN [i \in 1..Len(d) |-> IF d[i].key = k THEN [key |-> k, val |-> v] ELSE d[i]]
    ELSE Append(d, [key |-> k, val |-> v])

\* ------------------------------------------------------------ participants
\* A participant record as the upstream API returns it.  The human API
\* exposes name / username / first_name, the chat-participants API exposes
\* agent_name / name / type; a field the response does not carry is Absent.
Participant(id, type, name, username, first_name, last_name, agent_name) ==
    [id |-> id, type |-> type, name |-> name, username |-> username,
     first_name |-> first_name, last_name |-> last_name, agent_name |-> agent_name]

ParticipantPool ==
    { Participant(<<"a", "a">>, "User", <<"A", "b">>, <<"b">>, <<"A">>, <<"b">>, None),
      Participant(<<"a", "b">>, "User", None, Absent, <<"A">>, None, None),
      Participant(<<"b">>, "User", None, None, None, None, None),
      Participant(<<"A">>, "Agent", <<"a">>, None, None, None, <<"a">>) }

RECURSIVE SeqsNoRepeat(_, _)
SeqsNoRepeat(S, n) ==
    IF n = 0 THEN {<<>>}
    ELSE LET shorter == SeqsNoRepeat(S, n - 1)
         IN shorter \cup
            {Append(q, x) : <<q, x>> \in
                {qx \in shorter \X S : \A i \in 1..Len(qx[1]) : qx[1][i] # qx[2]}}

\* Every membership a chat room can have: an ordered list of distinct members.
Directories == SeqsNoRepeat(ParticipantPool, MaxParticipants)

\* --------------------------------------------------------------- server.py
\* The longest text that follows a (partial) key prefix in a configured key.
MaxKeyTail == 2

startswith(s, prefix) ==
    Len(s) >= Len(prefix) /\ SubSeq(s, 1, Len(prefix)) = prefix

UserPrefix == <<"t", "h", "n", "v", "_", "u", "_">>
AgentPrefix == <<"t", "h", "n", "v", "_", "a", "_">>
LegacyPrefix == <<"t", "h", "n", "v", "_">>

\* Mutant: the legacy prefix is tested before the two specific ones.
get_key_type_legacy_first(key) ==
    IF startswith(key, LegacyPrefix) THEN "legacy"
    ELSE IF startswith(key, UserPrefix) THEN "user"
    ELSE IF startswith(key, AgentPrefix) THEN "agent"
    ELSE "unknown"

get_key_type(key) ==
    IF startswith(key, UserPrefix) THEN "user"
    ELSE IF startswith(key, AgentPrefix) THEN "agent"
    ELSE IF startswith(key, LegacyPrefix) THEN "legacy"
    ELSE "unknown"

\* Mutant: a legacy key registers the agent tools only.
tool_groups_legacy_as_agent(type) ==
    (IF type \in {"agent", "legacy"} THEN {"agent"} ELSE {}) \cup
    (IF type \in {"user"} THEN {"human"} ELSE {}) \cup
    {"health_check"}

\* The tool modules imported for a key type, and health_check, which the
\* server module always defines.
tool_groups(type) ==
    (IF type \in {"agent", "legacy"} THEN {"agent"} ELSE {}) \cup
    (IF type \in {"user", "legacy"} THEN {"human"} ELSE {}) \cup
    {"health_check"}

\* The lifespan before the server runs: no client yet, nothing closed.
NoLifespan ==
    [phase |-> "not_started", has_close |-> TRUE, pending |-> "none",
     closes |-> 0, close_failed |-> FALSE, outcome |-> "none"]

\* The configured keys: what is left of a prefix after cutting it anywhere,
\* followed by any short text.
KeyAlphabet == {"t", "h", "n", "v", "_", "u", "a", "x"}
Heads(prefix) == {SubSeq(prefix, 1, n) : n \in 0..Len(prefix)}
Keys ==
    {h \o t : h \in Heads(UserPrefix) \cup Heads(AgentPrefix),
              t \in UNION {[1..n -> KeyAlphabet] : n \in 0..MaxKeyTail}}

\* The key the server runs with while its tools are being called.
ServerKey == LegacyPrefix \o <<"x">>

\* ------------------------------------------------------------------ roles
RoleOwner == <<"o", "w", "n", "e", "r">>
RoleAdmin == <<"a", "d", "m", "i", "n">>
RoleMember == <<"m", "e", "m", "b", "e", "r">>

\* The roles of a chat room before any tool ran: its creator owns it.
InitialRoles(participants) ==
    [i \in 1..Len(participants) |-> IF i = 1 THEN RoleOwner ELSE RoleMember]

\* ----------------------------------------------------------- stored fields
\* What the platform stores for the agent, the chat room and the tool that
\* the update tools address, field by field, before any update.
JsonObject(text) == [type |-> "dict", text |-> text]
OldText == <<"o">>
OldJson == JsonObject(<<"o">>)

AgentTextFields == {"name", "model_type", "description", "system_prompt_id",
                    "organization_id"}
AgentFlagFields == {"is_external", "is_global"}
AgentFields == AgentTextFields \cup AgentFlagFields \cup {"structured_output_schema"}
ChatFields == {"title", "status", "metadata"}
ToolFields == {"name", "description", "json_schema", "connection_config"}
JsonFields == {"structured_output_schema", "metadata", "json_schema", "connection_config"}

OldValue(f) ==
    IF f \in JsonFields THEN OldJson
    ELSE IF f \in AgentFlagFields THEN <<"False">>
    ELSE OldText

InitialStored ==
    [agent |-> [f \in AgentFields |-> OldValue(f)],
     chat |-> [f \in ChatFields |-> OldValue(f)],
     tool |-> [f \in ToolFields |-> OldValue(f)]]

\* ------------------------------------------------------------------- state
Procs == {1, 2}

VARIABLES
    directory,   \* upstream: the participants of the chat room, in API order
    roles,       \* upstream: the role of each participant of the chat room
    stored,      \* upstream: the fields of the agent, the chat room and the tool
    api_key,     \* server: the configured API key
    key_type,    \* server: the key type worked out when the server module loads
    registered,  \* server: the tool groups registered with the MCP server
    lifespan,    \* server: the lifespan context manager and its API client
    active,      \* the tool invocations that may run
    pc,          \* per invocation: idle, profile, fetch, send, done
    op,          \* per invocation: the tool that was called
    args,        \* per invocation: the tool's arguments
    snapshot,    \* per invocation: the participants its directory fetch returned
    request,     \* per invocation: the ChatMessageRequest built for the send call
    calls,       \* per invocation: the upstream calls made so far, in order
    result       \* per invocation: the outcome returned or raised

vars == <<directory, roles, stored, api_key, key_type, registered, lifespan, active,
          pc, op, args, snapshot, request, calls, result>>

\* The server's own state, and what the messaging, event and chat tools
\* leave alone.
server == <<api_key, key_type, registered, lifespan>>
world == <<directory, roles, stored, server, active>>

\* An optional list: None, or a list of items.
NoneList == [is_none |-> TRUE, items |-> <<>>]
List(items) == [is_none |-> FALSE, items |-> items]

\* The mentions argument: None, or a JSON text given by what json.loads
\* makes of it (a decode error, or a list of objects).
NoMentions == [kind |-> "None", entries |-> <<>>]

NoResult == [kind |-> "None"]
NoArgs == [recipients |-> None, mentions |-> NoMentions, content |-> <<>>,
           message_type |-> None, metadata |-> None, task_id |-> None,
           participant_id |-> None, role |-> None, fields |-> <<>>]
NoSnapshot == [fetched |-> FALSE, data |-> <<>>]
Snapshot(participants) == [fetched |-> TRUE, data |-> participants]
NoRequest == [content |-> <<>>, mentions |-> NoneList]

\* The message text the caller sends.
Contents == {<<"b">>}

\* Values of the recipients / recipient_ids argument: None or a str.
Recipients == {None} \cup Str

Init ==
    /\ directory \in Directories
    /\ roles = InitialRoles(directory)
    /\ stored = InitialStored
    /\ api_key = ServerKey
    /\ key_type = get_key_type(api_key)
    /\ registered = tool_groups(key_type)
    /\ lifespan = [NoLifespan EXCEPT !.phase = "running"]
    /\ active = {1}
    /\ pc = [p \in Procs |-> "idle"]
    /\ op = [p \in Procs |-> "none"]
    /\ args = [p \in Procs |-> NoArgs]
    /\ snapshot = [p \in Procs |-> NoSnapshot]
    /\ request = [p \in Procs |-> NoRequest]
    /\ calls = [p \in Procs |-> <<>>]
    /\ result = [p \in Procs |-> NoResult]

\* The outcomes of an upstream call: it answers, or it raises an API error.
UpstreamOutcomes == {"ok", "error"}

\* Mutant: the client's exception is wrapped in a RuntimeError with a prefix.
UpstreamErrorWrapped(api) ==
    [kind |-> "RuntimeError", msg |-> "Failed to fetch participants: ",
     cause |-> [kind |-> "ApiError", api |-> api]]

\* The exception the REST client raises; the tool lets it propagate.
UpstreamError(api) == [kind |-> "ApiError", api |-> api]

\* One upstream call: the endpoint, the request it was given, how it
\* answered, and the id of the entity it answered with (when the tool reads it).
ApiCall(api, message, outcome, data) ==
    [api |-> api, message |-> message, outcome |-> outcome, data |-> data]

\* Mutant: a call that raised is made a second time.
upstream_call_retried(log, call) ==
    IF call.outcome = "error" THEN log \o <<call, call>> ELSE Append(log, call)

\* The tool calls the client method once and lets the outcome stand.
upstream_call(log, call) == Append(log, call)

Finish(p, r) ==
    /\ pc' = [pc EXCEPT ![p] = "done"]
    /\ result' = [result EXCEPT ![p] = r]

\* ------------------------------------------------ send_user_chat_message
ValueError(msg, names, available) ==
    [kind |-> "ValueError", msg |-> msg, names |-> names, available |-> available]

NonBlank(name) == strip(name) # <<>>
\* Mutant: the requested name is trimmed but keeps its letter case.
StripOnly(name) == strip(name)

StripLower(name) == lower(strip(name))

\* recipient_names = [name.strip().lower() for name in recipients.split(",") if name.strip()]
recipient_names(recipients) ==
    LET tokens == split(recipients)
        kept == Pick(tokens, {i \in 1..Len(tokens) : NonBlank(tokens[i])})
    IN [i \in 1..Len(kept) |-> StripLower(kept[i])]

\* One iteration of the loop that builds name_to_participant.
IndexParticipant(d, p) ==
    LET d1 == IF Truthy(p.name) THEN DictSet(d, lower(p.name), p) ELSE d
        d2 == IF Truthy(p.username) THEN DictSet(d1, lower(p.username), p) ELSE d1
        d3 == IF Truthy(p.first_name) THEN DictSet(d2, lower(p.first_name), p) ELSE d2
    IN d3

RECURSIVE IndexFrom(_, _, _)
IndexFrom(d, participants, i) ==
    IF i > Len(participants) THEN d
    ELSE IndexFrom(IndexParticipant(d, participants[i]), participants, i + 1)

\* Mutant: the index is a dictionary shared by the invocations; the entries
\* of the participants another invocation fetched are still in it.
name_to_participant_shared(participants) ==
    IndexFrom(<<>>, snapshot[1].data \o snapshot[2].data \o participants, 1)

\* name_to_participant: dict[str, Any] = {} and the loop that fills it.
name_to_participant(participants) == IndexFrom(<<>>, participants, 1)

Unknown == <<"Unknown">>

\* getattr(participant, "name", None) or getattr(participant, "username", "Unknown")
display_name(participant) ==
    IF Truthy(participant.name) THEN participant.name
    ELSE IF participant.username = Absent THEN Unknown
    ELSE participant.username

\* Mutant: the mention's id is the display name, not the participant's id.
MentionIdFromName(id, name) == [id |-> name, name |-> name]

\* ChatMessageRequestMentionsItem(id=participant.id, name=display_name)
Mention(id, name) == [id |-> id, name |-> name]

\* Mutant: the mentions are collected while walking the index, not the request.
mentions_in_index_order(index, names) ==
    LET keys == DictKeys(index)
        wanted == Pick(keys, {k \in 1..Len(keys) : \E i \in 1..Len(names) : names[i] = keys[k]})
    IN [k \in 1..Len(wanted) |->
          Mention(DictGet(index, wanted[k]).id, display_name(DictGet(index, wanted[k])))]

mentions_list(index, names) ==
    LET found == Pick(names, {i \in 1..Len(names) : DictHas(index, names[i])})
    IN [k \in 1..Len(found) |->
          Mention(DictGet(index, found[k]).id, display_name(DictGet(index, found[k])))]

\* Mutant: the loop stops at the first name it cannot find.
not_found_first_only(index, names) ==
    LET missing == Pick(names, {i \in 1..Len(names) : ~DictHas(index, names[i])})
    IN IF missing = <<>> THEN <<>> ELSE <<missing[1]>>

\* Mutant: names that are not found are skipped instead of collected.
not_found_skipped(index, names) == <<>>

not_found(index, names) ==
    Pick(names, {i \in 1..Len(names) : ~DictHas(index, names[i])})

\* Mutant: only the empty string is rejected, None goes on to be split.
recipients_empty_string(recipients) == recipients = <<>>

\* if not recipients: raise ValueError("recipients is required ...")
recipients_missing(recipients) == ~Truthy(recipients)

send_user_chat_message_call(p) ==
    /\ p \in active
    /\ pc[p] = "idle"
    /\ \E recipients \in Recipients, content \in Contents :
        /\ op' = [op EXCEPT ![p] = "send_user_chat_message"]
        /\ args' = [args EXCEPT ![p] = [NoArgs EXCEPT !.recipients = recipients,
                                                       !.content = content]]
        /\ IF recipients_missing(recipients)
           THEN Finish(p, ValueError("recipients is required", <<>>, <<>>))
           ELSE /\ pc' = [pc EXCEPT ![p] = "fetch"]
                /\ UNCHANGED result
    /\ UNCHANGED <<world, snapshot, request, calls>>

send_user_chat_message_fetch(p) ==
    /\ p \in active
    /\ pc[p] = "fetch"
    /\ op[p] = "send_user_chat_message"
    /\ \E outcome \in UpstreamOutcomes :
        /\ calls' = [calls EXCEPT ![p] =
              upstream_call(@, ApiCall("list_my_chat_participants", NoRequest, outcome, <<>>))]
        /\ IF outcome = "error"
           THEN /\ Finish(p, UpstreamError("list_my_chat_participants"))
                /\ UNCHANGED <<snapshot, request>>
           ELSE LET names == recipient_names(args[p].recipients)
                    index == name_to_participant(directory)
                    missing == not_found(index, names)
                IN /\ snapshot' = [snapshot EXCEPT ![p] = Snapshot(directory)]
                   /\ IF missing # <<>>
                      THEN /\ Finish(p, ValueError("Not found", missing, DictKeys(index)))
                           /\ UNCHANGED request
                      ELSE /\ request' = [request EXCEPT ![p] =
                                             [content |-> args[p].content,
                                              mentions |-> List(mentions_list(index, names))]]
                           /\ pc' = [pc EXCEPT ![p] = "send"]
                           /\ UNCHANGED result
    /\ UNCHANGED <<world, op, args>>

send_user_chat_message_send(p) ==
    /\ p \in active
    /\ pc[p] = "send"
    /\ op[p] = "send_user_chat_message"
    /\ \E outcome \in UpstreamOutcomes :
        /\ calls' = [calls EXCEPT ![p] =
              upstream_call(@, ApiCall("send_my_chat_message", request[p], outcome, <<>>))]
        /\ IF outcome = "error"
           THEN Finish(p, UpstreamError("send_my_chat_message"))
           ELSE Finish(p, [kind |-> "Sent", message |-> request[p]])
    /\ UNCHANGED <<world, op, args, snapshot, request>>

\* ---------------------------------------------------- create_chat_message
\* The ids the who-am-I call may report for the authenticated user.
UserIds == {<<"m", "e">>, <<"y", "o", "u">>}

\* sender_id = profile.data.id, kept from the who-am-I call of this invocation.
sender_id(p) == calls[p][1].data

MessageTypes == {None, <<"t", "h", "o", "u", "g", "h", "t">>}
TextType == <<"t", "e", "x", "t">>

RECURSIVE join(_, _)
join(sep, parts) ==
    IF parts = <<>> THEN <<>>
    ELSE IF Len(parts) = 1 THEN parts[1]
    ELSE parts[1] \o sep \o join(sep, Tail(parts))

\* recipient_list = [rid.strip() for rid in recipient_ids.split(",") if rid.strip()]
recipient_list(recipient_ids) ==
    LET tokens == split(recipient_ids)
        kept == Pick(tokens, {i \in 1..Len(tokens) : NonBlank(tokens[i])})
    IN [i \in 1..Len(kept) |-> strip(kept[i])]

\* display_name or p_id of one participant of the chat-participants API.
map_display_name(p) ==
    IF Truthy(p.agent_name) THEN p.agent_name
    ELSE IF Truthy(p.name) THEN p.name
    ELSE p.id

MapParticipant(d, p) ==
    IF Truthy(p.id)
    THEN DictSet(d, p.id, [display_name |-> map_display_name(p), type |-> p.type])
    ELSE d

RECURSIVE MapFrom(_, _, _)
MapFrom(d, participants, i) ==
    IF i > Len(participants) THEN d
    ELSE MapFrom(MapParticipant(d, participants[i]), participants, i + 1)

participant_map(participants) == MapFrom(<<>>, participants, 1)

invalid_recipients(pmap, rids) ==
    Pick(rids, {i \in 1..Len(rids) : ~DictHas(pmap, rids[i])})

MentionDict(id, username) == [id |-> id, username |-> username]

id_mentions_list(pmap, rids) ==
    [i \in 1..Len(rids) |-> MentionDict(rids[i], DictGet(pmap, rids[i]).display_name)]

mention_tags(pmap, rids) ==
    [i \in 1..Len(rids) |-> <<"@">> \o DictGet(pmap, rids[i]).display_name]

\* Mutant: the mention tags follow the content instead of leading it.
formatted_content_tags_last(pmap, rids, content) ==
    content \o <<" ">> \o join(<<" ">>, mention_tags(pmap, rids))

\* formatted_content = f"{' '.join(mention_tags)} {content}"
formatted_content(pmap, rids, content) ==
    join(<<" ">>, mention_tags(pmap, rids)) \o <<" ">> \o content

\* Mutant: the message is sent as its first mentioned participant.
MessageRequestFromRecipient(sender, content, mentions, message_type) ==
    [content |-> content,
     sender_id |-> IF mentions.items = <<>> THEN sender ELSE mentions.items[1].id,
     sender_type |-> "User",
     message_type |-> IF Truthy(message_type) THEN message_type ELSE TextType,
     mentions |-> mentions]

MessageRequest(sender, content, mentions, message_type) ==
    [content |-> content, sender_id |-> sender, sender_type |-> "User",
     message_type |-> IF Truthy(message_type) THEN message_type ELSE TextType,
     mentions |-> mentions]

create_chat_message_call(p) ==
    /\ p \in active
    /\ pc[p] = "idle"
    /\ \E recipient_ids \in Recipients, content \in Contents, message_type \in MessageTypes :
        /\ op' = [op EXCEPT ![p] = "create_chat_message"]
        /\ args' = [args EXCEPT ![p] = [NoArgs EXCEPT !.recipients = recipient_ids,
                                                       !.content = content,
                                                       !.message_type = message_type]]
    /\ pc' = [pc EXCEPT ![p] = "profile"]
    /\ UNCHANGED <<world, snapshot, request, calls, result>>

create_chat_message_profile(p) ==
    /\ p \in active
    /\ pc[p] = "profile"
    /\ op[p] = "create_chat_message"
    /\ \E outcome \in UpstreamOutcomes, id \in UserIds :
        /\ calls' = [calls EXCEPT ![p] =
              upstream_call(@, ApiCall("get_my_profile", NoRequest, outcome,
                                       IF outcome = "ok" THEN id ELSE <<>>))]
        /\ IF outcome = "error"
           THEN /\ Finish(p, UpstreamError("get_my_profile"))
                /\ UNCHANGED request
           ELSE IF Truthy(args[p].recipients) /\ recipient_list(args[p].recipients) # <<>>
           THEN /\ pc' = [pc EXCEPT ![p] = "fetch"]
                /\ UNCHANGED <<request, result>>
           ELSE /\ request' = [request EXCEPT ![p] =
                                  MessageRequest(id, args[p].content, NoneList,
                                                 args[p].message_type)]
                /\ pc' = [pc EXCEPT ![p] = "send"]
                /\ UNCHANGED result
    /\ UNCHANGED <<world, op, args, snapshot>>

create_chat_message_fetch(p) ==
    /\ p \in active
    /\ pc[p] = "fetch"
    /\ op[p] = "create_chat_message"
    /\ \E outcome \in UpstreamOutcomes :
        /\ calls' = [calls EXCEPT ![p] =
              upstream_call(@, ApiCall("list_chat_participants", NoRequest, outcome, <<>>))]
        /\ IF outcome = "error"
           THEN /\ Finish(p, UpstreamError("list_chat_participants"))
                /\ UNCHANGED <<snapshot, request>>
           ELSE LET rids == recipient_list(args[p].recipients)
                    pmap == participant_map(directory)
                    invalid == invalid_recipients(pmap, rids)
                IN /\ snapshot' = [snapshot EXCEPT ![p] = Snapshot(directory)]
                   /\ IF invalid # <<>>
                      THEN /\ Finish(p, ValueError("not participants in the chat room",
                                                   invalid, <<>>))
                           /\ UNCHANGED request
                      ELSE /\ request' = [request EXCEPT ![p] =
                                             MessageRequest(
                                                 sender_id(p),
                                                 formatted_content(pmap, rids, args[p].content),
                                                 List(id_mentions_list(pmap, rids)),
                                                 args[p].message_type)]
                           /\ pc' = [pc EXCEPT ![p] = "send"]
                           /\ UNCHANGED result
    /\ UNCHANGED <<world, op, args>>

\* The send endpoint answers with a message, answers without data, or raises.
SendOutcomes == UpstreamOutcomes \cup {"nodata"}

create_chat_message_send(p) ==
    /\ p \in active
    /\ pc[p] = "send"
    /\ op[p] = "create_chat_message"
    /\ \E outcome \in SendOutcomes :
        /\ calls' = [calls EXCEPT ![p] =
              upstream_call(@, ApiCall("create_chat_message", request[p], outcome, <<>>))]
        /\ CASE outcome = "error" -> Finish(p, UpstreamError("create_chat_message"))
             [] outcome = "nodata" ->
                   Finish(p, [kind |-> "RuntimeError",
                              msg |-> "Message sent but ID not available in response"])
             [] outcome = "ok" -> Finish(p, [kind |-> "Sent", message |-> request[p]])
    /\ UNCHANGED <<world, op, args, snapshot, request>>

\* ------------------------------------------------ createAgentChatMessage
\* The agent tool that takes recipients or pre-resolved mentions.
MaxMentions == 2

\* The objects a mentions JSON text may list: complete ones, one of a
\* participant that is not in the chat room, and ones lacking a field.
MentionEntries ==
    { [id |-> <<"a", "a">>, name |-> <<"A", "b">>],
      [id |-> <<"z">>, name |-> <<"A">>],
      [id |-> Absent, name |-> <<"a">>],
      [id |-> <<"b">>, name |-> Absent] }

MentionsInputs ==
    {[kind |-> "invalid_json", entries |-> <<>>]} \cup
    {[kind |-> "json", entries |-> e] :
        e \in UNION {[1..n -> MentionEntries] : n \in 0..MaxMentions}}

ShortRecipients == {None} \cup {r \in Str : Len(r) <= 1}

AgentMessageArgs ==
    {[NoArgs EXCEPT !.recipients = r, !.content = c] :
        r \in Recipients, c \in Contents} \cup
    {[NoArgs EXCEPT !.recipients = r, !.mentions = m, !.content = c] :
        r \in ShortRecipients, m \in MentionsInputs, c \in Contents}

\* The first field an entry of the mentions list lacks, "" when complete.
MissingField(entry) ==
    IF entry.id = Absent THEN "id" ELSE IF entry.name = Absent THEN "name" ELSE ""

\* Mutant: the entries are collected in reverse.
parse_mentions_reversed(mentions) ==
    LET n == Len(mentions.entries)
    IN IF mentions.kind = "invalid_json"
       THEN [ok |-> FALSE, error |-> [kind |-> "ValueError",
                                      msg |-> "Invalid JSON for mentions", field |-> ""]]
       ELSE [ok |-> TRUE,
             mentions |-> [i \in 1..n |->
                             Mention(mentions.entries[n + 1 - i].id,
                                     mentions.entries[n + 1 - i].name)]]

\* Mutant: an entry that lacks a field is passed on as it is.
parse_mentions_unchecked(mentions) ==
    LET entries == mentions.entries
    IN IF mentions.kind = "invalid_json"
       THEN [ok |-> FALSE, error |-> [kind |-> "ValueError",
                                      msg |-> "Invalid JSON for mentions", field |-> ""]]
       ELSE [ok |-> TRUE,
             mentions |-> [i \in 1..Len(entries) |-> Mention(entries[i].id, entries[i].name)]]

parse_mentions(mentions) ==
    LET entries == mentions.entries
        bad == Pick(entries, {i \in 1..Len(entries) : MissingField(entries[i]) # ""})
    IN IF mentions.kind = "invalid_json"
       THEN [ok |-> FALSE, error |-> [kind |-> "ValueError",
                                      msg |-> "Invalid JSON for mentions", field |-> ""]]
       ELSE IF bad # <<>>
       THEN [ok |-> FALSE, error |-> [kind |-> "ValueError",
                                      msg |-> "Missing required mention field",
                                      field |-> MissingField(bad[1])]]
       ELSE [ok |-> TRUE,
             mentions |-> [i \in 1..Len(entries) |-> Mention(entries[i].id, entries[i].name)]]

\* agentName for an agent, else firstName and lastName joined, else the id.
derived_display_name(p) ==
    LET parts == (IF Truthy(p.first_name) THEN <<p.first_name>> ELSE <<>>) \o
                 (IF Truthy(p.last_name) THEN <<p.last_name>> ELSE <<>>)
    IN IF p.type = "Agent" /\ Truthy(p.agent_name) THEN p.agent_name
       ELSE IF p.type # "Agent" /\ parts # <<>> THEN join(<<" ">>, parts)
       ELSE p.id

DisplayIndexParticipant(d, p) ==
    LET d1 == DictSet(d, lower(derived_display_name(p)), p)
    IN IF Truthy(p.first_name) THEN DictSet(d1, lower(p.first_name), p) ELSE d1

RECURSIVE DisplayIndexFrom(_, _, _)
DisplayIndexFrom(d, participants, i) ==
    IF i > Len(participants) THEN d
    ELSE DisplayIndexFrom(DisplayIndexParticipant(d, participants[i]), participants, i + 1)

display_name_index(participants) == DisplayIndexFrom(<<>>, participants, 1)

\* The distinct display names present, in directory order.
RECURSIVE available_names(_, _)
available_names(participants, i) ==
    IF i > Len(participants) THEN <<>>
    ELSE LET n == derived_display_name(participants[i])
             rest == available_names(participants, i + 1)
         IN <<n>> \o Pick(rest, {k \in 1..Len(rest) : rest[k] # n})

\* The requested names the display-name index does not hold.
unmatched_names(index, names) ==
    Pick(names, {i \in 1..Len(names) : ~DictHas(index, names[i])})

resolved_mentions(index, names) ==
    [i \in 1..Len(names) |->
        Mention(DictGet(index, names[i]).id, derived_display_name(DictGet(index, names[i])))]

\* Mutant: recipients, when given, win over the mentions.
recipient_path_names_first(a) ==
    IF a.recipients # None /\ recipient_names(a.recipients) # <<>> THEN "free_text"
    ELSE IF a.mentions # NoMentions THEN "pre_resolved"
    ELSE IF a.recipients = None THEN "missing"
    ELSE "empty"

\* Which form of the recipient specification the tool acts on.
recipient_path(a) ==
    IF a.mentions # NoMentions THEN "pre_resolved"
    ELSE IF a.recipients = None THEN "missing"
    ELSE IF recipient_names(a.recipients) = <<>> THEN "empty"
    ELSE "free_text"

createAgentChatMessage_call(p) ==
    /\ p \in active
    /\ pc[p] = "idle"
    /\ \E a \in AgentMessageArgs :
        /\ op' = [op EXCEPT ![p] = "createAgentChatMessage"]
        /\ args' = [args EXCEPT ![p] = a]
        /\ IF recipient_path(a) = "pre_resolved"
           THEN LET parsed == parse_mentions(a.mentions)
                IN IF parsed.ok
                   THEN /\ request' = [request EXCEPT ![p] =
                                          [content |-> a.content,
                                           mentions |-> List(parsed.mentions)]]
                        /\ pc' = [pc EXCEPT ![p] = "send"]
                        /\ UNCHANGED result
                   ELSE /\ Finish(p, parsed.error)
                        /\ UNCHANGED request
           ELSE IF recipient_path(a) = "missing"
           THEN /\ Finish(p, ValueError("Missing recipients or mentions", <<>>, <<>>))
                /\ UNCHANGED request
           ELSE IF recipient_path(a) = "empty"
           THEN /\ Finish(p, ValueError("recipients cannot be empty", <<>>, <<>>))
                /\ UNCHANGED request
           ELSE /\ pc' = [pc EXCEPT ![p] = "fetch"]
                /\ UNCHANGED <<request, result>>
    /\ UNCHANGED <<world, snapshot, calls>>

createAgentChatMessage_fetch(p) ==
    /\ p \in active
    /\ pc[p] = "fetch"
    /\ op[p] = "createAgentChatMessage"
    /\ \E outcome \in UpstreamOutcomes :
        /\ calls' = [calls EXCEPT ![p] =
              upstream_call(@, ApiCall("list_agent_chat_participants", NoRequest, outcome, <<>>))]
        /\ IF outcome = "error"
           THEN /\ Finish(p, UpstreamError("list_agent_chat_participants"))
                /\ UNCHANGED <<snapshot, request>>
           ELSE LET names == recipient_names(args[p].recipients)
                    index == display_name_index(directory)
                    missing == unmatched_names(index, names)
                IN /\ snapshot' = [snapshot EXCEPT ![p] = Snapshot(directory)]
                   /\ IF missing # <<>>
                      THEN /\ Finish(p, ValueError("Could not find participants", missing,
                                                   available_names(directory, 1)))
                           /\ UNCHANGED request
                      ELSE /\ request' = [request EXCEPT ![p] =
                                             [content |-> args[p].content,
                                              mentions |-> List(resolved_mentions(index, names))]]
                           /\ pc' = [pc EXCEPT ![p] = "send"]
                           /\ UNCHANGED result
    /\ UNCHANGED <<world, op, args>>

createAgentChatMessage_send(p) ==
    /\ p \in active
    /\ pc[p] = "send"
    /\ op[p] = "createAgentChatMessage"
    /\ \E outcome \in SendOutcomes :
        /\ calls' = [calls EXCEPT ![p] =
              upstream_call(@, ApiCall("create_agent_chat_message", request[p], outcome, <<>>))]
        /\ CASE outcome = "error" ->
                   Finish(p, [kind |-> "RuntimeError", msg |-> "Failed to send message: ",
                              cause |-> UpstreamError("create_agent_chat_message")])
             [] outcome = "nodata" ->
                   Finish(p, [kind |-> "RuntimeError",
                              msg |-> "Message created but data not available"])
             [] outcome = "ok" -> Finish(p, [kind |-> "Sent", message |-> request[p]])
    /\ UNCHANGED <<world, op, args, snapshot, request>>

\* ------------------------------------------------------- create-event tools
\* createAgentChatEvent (tools/events.py) and create_agent_chat_event
\* (tools/agent/events.py) post an event to a chat room.
VALID_EVENT_TYPES ==
    { <<"t", "o", "o", "l", "_", "c", "a", "l", "l">>,
      <<"t", "o", "o", "l", "_", "r", "e", "s", "u", "l", "t">>,
      <<"t", "h", "o", "u", "g", "h", "t">>,
      <<"e", "r", "r", "o", "r">>,
      <<"t", "a", "s", "k">> }

\* The message types a caller passes: valid ones in several casings, names
\* that are no event type, and the empty string.
EventTypeInputs ==
    { <<"t", "h", "o", "u", "g", "h", "t">>,
      <<"T", "H", "O", "U", "G", "H", "T">>,
      <<"T", "o", "o", "l", "_", "C", "a", "l", "l">>,
      <<"t", "o", "o", "l", "_", "r", "e", "s", "u", "l", "t">>,
      <<"E", "R", "R", "O", "R">>,
      <<"t", "a", "s", "k">>,
      <<"t", "e", "x", "t">>,
      <<"t", "h", "o", "u", "g", "h", "t", "s">>,
      <<>> }

\* The metadata a caller passes: None, or a text.
MetadataInputs ==
    { None, <<>>, <<"{", "}">>, <<" ", "{", "}", " ">>, <<"n", "u", "l", "l">>, <<"1", "2">>, <<"{">>, <<"a">> }

\* A parsed JSON value; json.loads("null") is Python's None.
JsonValue(type, text) == [type |-> type, text |-> text]
NoMetadata == JsonValue("None", <<>>)

IsDigits(text) == text # <<>> /\ \A i \in 1..Len(text) : text[i] \in {"1", "2"}

\* json.loads on the texts of MetadataInputs: the value, or a decode error.
json_loads(text) ==
    LET t == strip(text)
    IN IF t = <<"{", "}">> THEN [ok |-> TRUE, value |-> JsonValue("dict", t)]
       ELSE IF t = <<"n", "u", "l", "l">> THEN [ok |-> TRUE, value |-> NoMetadata]
       ELSE IF IsDigits(t) THEN [ok |-> TRUE, value |-> JsonValue("int", t)]
       ELSE [ok |-> FALSE, value |-> NoMetadata]

\* Mutant: the message type is checked and sent as the caller wrote it.
message_type_as_given(message_type) == message_type

\* message_type_lower = messageType.lower()
message_type_lower(message_type) == lower(message_type)

\* Mutant: metadata that does not parse is dropped instead of rejected.
parse_metadata_lenient(metadata) ==
    IF ~Truthy(metadata) THEN [ok |-> TRUE, value |-> NoMetadata]
    ELSE [ok |-> TRUE, value |-> json_loads(metadata).value]

\* metadata_dict = None; if metadata: metadata_dict = json.loads(metadata)
parse_metadata(metadata) ==
    IF ~Truthy(metadata) THEN [ok |-> TRUE, value |-> NoMetadata]
    ELSE json_loads(metadata)

ChatEventRequest(content, message_type, metadata) ==
    [content |-> content, message_type |-> message_type, metadata |-> metadata]

\* The code of both tools up to the upstream call: validate, parse, build.
event_request(p, a, invalid_msg) ==
    LET event_type == message_type_lower(a.message_type)
        parsed == parse_metadata(a.metadata)
    IN IF event_type \notin VALID_EVENT_TYPES
       THEN /\ Finish(p, ValueError(invalid_msg, <<a.message_type>>, <<>>))
            /\ UNCHANGED request
       ELSE IF ~parsed.ok
       THEN /\ Finish(p, ValueError("Invalid JSON for metadata", <<>>, <<>>))
            /\ UNCHANGED request
       ELSE /\ request' = [request EXCEPT ![p] =
                              ChatEventRequest(a.content, event_type, parsed.value)]
            /\ pc' = [pc EXCEPT ![p] = "send"]
            /\ UNCHANGED result

EventArgs ==
    {[NoArgs EXCEPT !.content = c, !.message_type = t, !.metadata = m] :
        c \in Contents, t \in EventTypeInputs, m \in MetadataInputs}

createAgentChatEvent_call(p) ==
    /\ p \in active
    /\ pc[p] = "idle"
    /\ \E a \in EventArgs :
        /\ op' = [op EXCEPT ![p] = "createAgentChatEvent"]
        /\ args' = [args EXCEPT ![p] = a]
        /\ event_request(p, a, "Invalid messageType")
    /\ UNCHANGED <<world, snapshot, calls>>

Created(thing, req) == [kind |-> "Created", thing |-> thing, request |-> req]

createAgentChatEvent_send(p) ==
    /\ p \in active
    /\ pc[p] = "send"
    /\ op[p] = "createAgentChatEvent"
    /\ \E outcome \in SendOutcomes :
        /\ calls' = [calls EXCEPT ![p] =
              upstream_call(@, ApiCall("create_agent_chat_event", request[p], outcome, <<>>))]
        /\ CASE outcome = "error" ->
                  Finish(p, [kind |-> "RuntimeError", msg |-> "Failed to create event: ",
                             cause |-> UpstreamError("create_agent_chat_event")])
             [] outcome = "nodata" ->
                  Finish(p, [kind |-> "RuntimeError",
                             msg |-> "Event created but data not available in response"])
             [] outcome = "ok" -> Finish(p, Created("event", request[p]))
    /\ UNCHANGED <<world, op, args, snapshot, request>>

create_agent_chat_event_call(p) ==
    /\ p \in active
    /\ pc[p] = "idle"
    /\ \E a \in EventArgs :
        /\ op' = [op EXCEPT ![p] = "create_agent_chat_event"]
        /\ args' = [args EXCEPT ![p] = a]
        /\ event_request(p, a, "Invalid message_type")
    /\ UNCHANGED <<world, snapshot, calls>>

\* result.data.id is read on a response whose data is None.
AttributeError == [kind |-> "AttributeError", msg |-> "'NoneType' object has no attribute 'id'"]

create_agent_chat_event_send(p) ==
    /\ p \in active
    /\ pc[p] = "send"
    /\ op[p] = "create_agent_chat_event"
    /\ \E outcome \in SendOutcomes :
        /\ calls' = [calls EXCEPT ![p] =
              upstream_call(@, ApiCall("create_agent_chat_event", request[p], outcome, <<>>))]
        /\ CASE outcome = "error" -> Finish(p, UpstreamError("create_agent_chat_event"))
             [] outcome = "nodata" -> Finish(p, AttributeError)
             [] outcome = "ok" -> Finish(p, Created("event", request[p]))
    /\ UNCHANGED <<world, op, args, snapshot, request>>

\* ------------------------------------------------------- create_agent_chat
TaskIds == {None, <<>>, <<"t", "1">>}

\* ChatRoomRequest(task_id=task_id) if task_id else ChatRoomRequest()
ChatRoomRequest(task_id) == [task_id |-> IF Truthy(task_id) THEN task_id ELSE Absent]

create_agent_chat_call(p) ==
    /\ p \in active
    /\ pc[p] = "idle"
    /\ \E task_id \in TaskIds :
        /\ op' = [op EXCEPT ![p] = "create_agent_chat"]
        /\ args' = [args EXCEPT ![p] = [NoArgs EXCEPT !.task_id = task_id]]
        /\ request' = [request EXCEPT ![p] = ChatRoomRequest(task_id)]
    /\ pc' = [pc EXCEPT ![p] = "send"]
    /\ UNCHANGED <<world, snapshot, calls, result>>

create_agent_chat_send(p) ==
    /\ p \in active
    /\ pc[p] = "send"
    /\ op[p] = "create_agent_chat"
    /\ \E outcome \in SendOutcomes :
        /\ calls' = [calls EXCEPT ![p] =
              upstream_call(@, ApiCall("create_agent_chat", request[p], outcome, <<>>))]
        /\ CASE outcome = "error" -> Finish(p, UpstreamError("create_agent_chat"))
             [] outcome = "nodata" -> Finish(p, AttributeError)
             [] outcome = "ok" -> Finish(p, Created("chat", request[p]))
    /\ UNCHANGED <<world, op, args, snapshot, request>>

\* --------------------------------------------------- add-participant tools
\* add_chat_participant (tools/participants.py) and add_user_chat_participant
\* (tools/human/human_participants.py) add a user or an agent to a chat room.
UpstreamRoles == {RoleOwner, RoleAdmin, RoleMember}

\* The role a caller passes: a role name in some casing, a name that is no
\* role, the empty string, None, or no role argument at all (Absent).
RoleTexts ==
    { RoleMember, RoleAdmin, <<"A", "D", "M", "I", "N">>, <<"O", "w", "n", "e", "r">>, <<"b", "o", "s", "s">>, <<>> }

\* The participants a caller may add: everyone known upstream, and an id
\* that nobody has.
ParticipantIds == {q.id : q \in ParticipantPool} \cup {<<"z">>}

IsMember(id) == \E k \in 1..Len(directory) : directory[k].id = id

\* Mutant: the role is passed on as it was given, None included.
role_as_given(role) == role

\* role=role or "member"
role_or_member(role) == IF Truthy(role) THEN role ELSE RoleMember

AddParticipantRequest(participant_id, role) ==
    [participant_id |-> participant_id, role |-> role]

\* role: str = "member": a call without the argument gets the default.
add_chat_participant_call(p) ==
    /\ p \in active
    /\ pc[p] = "idle"
    /\ \E participant_id \in ParticipantIds, role \in RoleTexts \cup {Absent} :
        /\ op' = [op EXCEPT ![p] = "add_chat_participant"]
        /\ args' = [args EXCEPT ![p] = [NoArgs EXCEPT !.participant_id = participant_id,
                                                       !.role = role]]
        /\ request' = [request EXCEPT ![p] =
                          AddParticipantRequest(participant_id,
                                                IF role = Absent THEN RoleMember ELSE role)]
    /\ pc' = [pc EXCEPT ![p] = "send"]
    /\ UNCHANGED <<world, snapshot, calls, result>>

\* role: Optional[str] = None: a call without the argument gets None.
add_user_chat_participant_call(p) ==
    /\ p \in active
    /\ pc[p] = "idle"
    /\ \E participant_id \in ParticipantIds, role \in RoleTexts \cup {None, Absent} :
        /\ op' = [op EXCEPT ![p] = "add_user_chat_participant"]
        /\ args' = [args EXCEPT ![p] = [NoArgs EXCEPT !.participant_id = participant_id,
                                                       !.role = role]]
        /\ request' = [request EXCEPT ![p] =
                          AddParticipantRequest(
                              participant_id,
                              role_or_member(IF role = Absent THEN None ELSE role))]
    /\ pc' = [pc EXCEPT ![p] = "send"]
    /\ UNCHANGED <<world, snapshot, calls, result>>

\* The platform adds a known participant that is not yet in the chat room,
\* with one of its role names, while the room has space; else it answers
\* with an error.
UpstreamAccepts(req) ==
    /\ req.role \in UpstreamRoles
    /\ \E q \in ParticipantPool : q.id = req.participant_id
    /\ ~IsMember(req.participant_id)
    /\ Len(directory) < MaxParticipants

\* The call to the add endpoint and what follows it, for both tools.
add_participant_send(p, api) ==
    \E outcome \in UpstreamOutcomes :
        /\ outcome = "ok" => UpstreamAccepts(request[p])
        /\ calls' = [calls EXCEPT ![p] =
              upstream_call(@, ApiCall(api, request[p], outcome, <<>>))]
        /\ IF outcome = "error"
           THEN /\ Finish(p, UpstreamError(api))
                /\ UNCHANGED <<directory, roles>>
           ELSE /\ directory' = Append(directory,
                                       CHOOSE q \in ParticipantPool :
                                           q.id = request[p].participant_id)
                /\ roles' = Append(roles, request[p].role)
                /\ Finish(p, [kind |-> "Added", id |-> request[p].participant_id])

add_chat_participant_send(p) ==
    /\ p \in active
    /\ pc[p] = "send"
    /\ op[p] = "add_chat_participant"
    /\ add_participant_send(p, "add_chat_participant")
    /\ UNCHANGED <<stored, server, active, op, args, snapshot, request>>

add_user_chat_participant_send(p) ==
    /\ p \in active
    /\ pc[p] = "send"
    /\ op[p] = "add_user_chat_participant"
    /\ add_participant_send(p, "add_my_chat_participant")
    /\ UNCHANGED <<stored, server, active, op, args, snapshot, request>>

\* ------------------------------------------------------------ update tools
\* update_agent (tools/agents.py), update_chat (tools/chats.py) and
\* update_tool (tools/tools.py) change fields of a stored entity.
NewText == <<"n">>
TextValues == {None, NewText}
NameValues == {None, <<>>, NewText}
FlagValues == {None, <<"True">>, <<"False">>}
JsonTextValues == {None, <<"{", "}">>, <<"n", "u", "l", "l">>, <<"{">>}

\* The values a caller may pass for a parameter of an update tool.
FieldValues(f) ==
    IF f \in JsonFields THEN JsonTextValues
    ELSE IF f \in {"name", "title"} THEN NameValues
    ELSE IF f \in AgentFlagFields THEN FlagValues
    ELSE TextValues

\* The arguments of one call of each update tool.
AgentUpdates ==
    [name : FieldValues("name"), model_type : FieldValues("model_type"),
     description : FieldValues("description"),
     system_prompt_id : FieldValues("system_prompt_id"),
     is_external : FieldValues("is_external"),
     is_global : FieldValues("is_global"),
     organization_id : FieldValues("organization_id"),
     structured_output_schema : FieldValues("structured_output_schema")]

ChatUpdates ==
    [title : FieldValues("title"), status : FieldValues("status"),
     metadata : FieldValues("metadata")]

ToolUpdates ==
    [name : FieldValues("name"), description : FieldValues("description"),
     json_schema : FieldValues("json_schema"),
     connection_config : FieldValues("connection_config")]

UpdateArgs(updates) == {[NoArgs EXCEPT !.fields = a] : a \in updates}

\* Mutant: every parameter is put into the request, given or not.
provided_always(value) == TRUE

\* if <parameter> is not None
provided(value) == value # None

\* The JSON text parameters among the given ones that json.loads rejects.
bad_json(a) ==
    {f \in DOMAIN a : f \in JsonFields /\ provided(a[f]) /\ ~json_loads(a[f]).ok}

\* update_data of update_agent and update_chat: the given parameters, the
\* JSON text ones parsed.
update_data(a) ==
    [f \in {g \in DOMAIN a : provided(a[g])} |->
        IF f \in JsonFields THEN json_loads(a[f]).value ELSE a[f]]

\* request_data of update_tool: a JSON text that parses to None is left out.
request_data(a) ==
    [f \in {g \in DOMAIN a :
               /\ provided(a[g])
               /\ g \in JsonFields => json_loads(a[g]).value # NoMetadata} |->
        IF f \in JsonFields THEN json_loads(a[f]).value ELSE a[f]]

\* The first JSON parameter, in the order the tool parses them, that is bad.
first_bad_json(bad) ==
    IF "json_schema" \in bad THEN "json_schema"
    ELSE CHOOSE f \in bad : TRUE

\* The code of an update tool up to its upstream call.
update_call(p, tool, a, req) ==
    /\ op' = [op EXCEPT ![p] = tool]
    /\ args' = [args EXCEPT ![p] = a]
    /\ IF bad_json(a.fields) # {}
       THEN /\ Finish(p, ValueError("Invalid JSON for parameter",
                                     <<first_bad_json(bad_json(a.fields))>>, <<>>))
            /\ UNCHANGED request
       ELSE /\ request' = [request EXCEPT ![p] = req]
            /\ pc' = [pc EXCEPT ![p] = "send"]
            /\ UNCHANGED result

update_agent_call(p) ==
    /\ p \in active
    /\ pc[p] = "idle"
    /\ \E a \in UpdateArgs(AgentUpdates) :
        update_call(p, "update_agent", a, update_data(a.fields))
    /\ UNCHANGED <<world, snapshot, calls>>

update_chat_call(p) ==
    /\ p \in active
    /\ pc[p] = "idle"
    /\ \E a \in UpdateArgs(ChatUpdates) :
        update_call(p, "update_chat", a, update_data(a.fields))
    /\ UNCHANGED <<world, snapshot, calls>>

update_tool_call(p) ==
    /\ p \in active
    /\ pc[p] = "idle"
    /\ \E a \in UpdateArgs(ToolUpdates) :
        update_call(p, "update_tool", a, request_data(a.fields))
    /\ UNCHANGED <<world, snapshot, calls>>

\* The platform's partial update: the fields of the request replace the
\* stored ones, every other field keeps its value.
Patched(entity, req) ==
    [f \in DOMAIN entity |-> IF f \in DOMAIN req THEN req[f] ELSE entity[f]]

\* The call to the update endpoint and what follows it.
update_send(p, tool, kind, api) ==
    /\ p \in active
    /\ pc[p] = "send"
    /\ op[p] = tool
    /\ \E outcome \in SendOutcomes :
        /\ calls' = [calls EXCEPT ![p] =
              upstream_call(@, ApiCall(api, request[p], outcome, <<>>))]
        /\ stored' = IF outcome = "error" THEN stored
                     ELSE [stored EXCEPT ![kind] = Patched(@, request[p])]
        /\ CASE outcome = "error" -> Finish(p, UpstreamError(api))
             [] outcome = "nodata" ->
                  Finish(p, [kind |-> "RuntimeError",
                             msg |-> "updated but ID not available in response"])
             [] outcome = "ok" -> Finish(p, [kind |-> "Updated", thing |-> kind])
    /\ UNCHANGED <<directory, roles, server, active, op, args, snapshot, request>>

update_agent_send(p) == update_send(p, "update_agent", "agent", "update_agent")
update_chat_send(p) == update_send(p, "update_chat", "chat", "update_chat")
update_tool_send(p) == update_send(p, "update_tool", "tool", "tools_controller_update")

\* The tool has returned or raised; the dispatcher may invoke a tool again.
tool_return(p) ==
    /\ p \in active
    /\ pc[p] = "done"
    /\ pc' = [pc EXCEPT ![p] = "idle"]
    /\ op' = [op EXCEPT ![p] = "none"]
    /\ args' = [args EXCEPT ![p] = NoArgs]
    /\ snapshot' = [snapshot EXCEPT ![p] = NoSnapshot]
    /\ request' = [request EXCEPT ![p] = NoRequest]
    /\ calls' = [calls EXCEPT ![p] = <<>>]
    /\ result' = [result EXCEPT ![p] = NoResult]
    /\ UNCHANGED world

Next ==
    \E p \in Procs :
        \/ send_user_chat_message_call(p)
        \/ send_user_chat_message_fetch(p)
        \/ send_user_chat_message_send(p)
        \/ create_chat_message_call(p)
        \/ create_chat_message_profile(p)
        \/ create_chat_message_fetch(p)
        \/ create_chat_message_send(p)
        \/ createAgentChatMessage_call(p)
        \/ createAgentChatMessage_fetch(p)
        \/ createAgentChatMessage_send(p)
        \/ createAgentChatEvent_call(p)
        \/ createAgentChatEvent_send(p)
        \/ create_agent_chat_event_call(p)
        \/ create_agent_chat_event_send(p)
        \/ create_agent_chat_call(p)
        \/ create_agent_chat_send(p)
        \/ tool_return(p)

Spec == Init /\ [][Next]_vars

\* The tools that change who is in the chat room.
MembershipNext ==
    \E p \in Procs :
        \/ add_chat_participant_call(p)
        \/ add_chat_participant_send(p)
        \/ add_user_chat_participant_call(p)
        \/ add_user_chat_participant_send(p)
        \/ tool_return(p)

MembershipSpec == Init /\ [][MembershipNext]_vars

\* One call of an update tool on the stored entities.
UpdateNext ==
    \E p \in Procs :
        \/ update_agent_call(p)
        \/ update_agent_send(p)
        \/ update_chat_call(p)
        \/ update_chat_send(p)
        \/ update_tool_call(p)
        \/ update_tool_send(p)

UpdateSpec == Init /\ [][UpdateNext]_vars

\* The server module is about to be loaded with the configured key.
ServerInit ==
    /\ api_key \in Keys
    /\ key_type = "unset"
    /\ registered = {}
    /\ lifespan \in {[NoLifespan EXCEPT !.has_close = h] : h \in BOOLEAN}
    /\ directory = <<>>
    /\ roles = <<>>
    /\ stored = InitialStored
    /\ active = {1}
    /\ pc = [p \in Procs |-> "idle"]
    /\ op = [p \in Procs |-> "none"]
    /\ args = [p \in Procs |-> NoArgs]
    /\ snapshot = [p \in Procs |-> NoSnapshot]
    /\ request = [p \in Procs |-> NoRequest]
    /\ calls = [p \in Procs |-> <<>>]
    /\ result = [p \in Procs |-> NoResult]

\* key_type = get_key_type(settings.thenvoi_api_key), then the conditional
\* imports, whose @mcp.tool() decorators register the tools.
load_server ==
    /\ key_type = "unset"
    /\ key_type' = get_key_type(api_key)
    /\ registered' = tool_groups(key_type')
    /\ UNCHANGED <<directory, roles, stored, api_key, lifespan, active,
                   pc, op, args, snapshot, request, calls, result>>

\* ------------------------------------------------------------ health_check
BaseUrl == <<"u", "r", "l">>

\* Mutant: every key type is probed with the agent-profile call.
health_probe_agent_only(type) == "get_agent_me"

\* The endpoint health_check probes for a key type.
health_probe(type) ==
    IF type = "user" THEN "list_my_agents"
    ELSE IF type = "agent" THEN "get_agent_me"
    ELSE "list_my_agents"

\* f"OK | {key_type} | {settings.thenvoi_base_url}"
HealthOk(type) ==
    [kind |-> "Returned", status |-> "OK", key_type |-> type,
     base_url |-> BaseUrl, error |-> NoResult]

\* f"Failed | {key_type} | {e}"
HealthFailed(type, e) ==
    [kind |-> "Returned", status |-> "Failed", key_type |-> type,
     base_url |-> None, error |-> e]

health_check_call(p) ==
    /\ p \in active
    /\ pc[p] = "idle"
    /\ "health_check" \in registered
    /\ lifespan.phase = "running"
    /\ op' = [op EXCEPT ![p] = "health_check"]
    /\ pc' = [pc EXCEPT ![p] = "probe"]
    /\ UNCHANGED <<world, args, snapshot, request, calls, result>>

health_check_probe(p) ==
    /\ p \in active
    /\ pc[p] = "probe"
    /\ op[p] = "health_check"
    /\ \E outcome \in UpstreamOutcomes :
        /\ calls' = [calls EXCEPT ![p] =
              upstream_call(@, ApiCall(health_probe(key_type), NoRequest, outcome, <<>>))]
        /\ IF outcome = "error"
           THEN Finish(p, HealthFailed(key_type, UpstreamError(health_probe(key_type))))
           ELSE Finish(p, HealthOk(key_type))
    /\ UNCHANGED <<world, op, args, snapshot, request>>

\* ------------------------------------------------------------ app_lifespan
\* How the body of the lifespan ends: the server stops, or an exception
\* propagates through the yield (an Exception, or one that is not, such as
\* a cancellation).
LifespanExits == {"none", "Exception", "BaseException"}

\* Mutant: an error raised by close leaves the lifespan instead of the
\* exception that was on its way.
lifespan_outcome_close_error(pending, close_failed) ==
    IF close_failed THEN "close_error"
    ELSE IF pending = "none" THEN "returned" ELSE pending

\* What leaves the context manager after the finally block has run.
lifespan_outcome(pending, close_failed) ==
    IF pending = "none" THEN "returned" ELSE pending

\* mcp.run() enters the lifespan: the client is created and yielded.
lifespan_start ==
    /\ key_type # "unset"
    /\ lifespan.phase = "not_started"
    /\ lifespan' = [lifespan EXCEPT !.phase = "running"]
    /\ UNCHANGED <<directory, roles, stored, api_key, key_type, registered, active,
                   pc, op, args, snapshot, request, calls, result>>

\* The body of the lifespan ends; an exception is logged and raised again.
lifespan_exit ==
    /\ lifespan.phase = "running"
    /\ \E pending \in LifespanExits :
        lifespan' = [lifespan EXCEPT !.phase = "cleanup", !.pending = pending]
    /\ UNCHANGED <<directory, roles, stored, api_key, key_type, registered, active,
                   pc, op, args, snapshot, request, calls, result>>

\* The finally block: close the client if it can be closed, log and
\* swallow an error of close, then let the pending exception go on.
lifespan_cleanup ==
    /\ lifespan.phase = "cleanup"
    /\ \E close_outcome \in UpstreamOutcomes :
        /\ ~lifespan.has_close => close_outcome = "ok"
        /\ LET failed == lifespan.has_close /\ close_outcome = "error"
           IN lifespan' =
                [lifespan EXCEPT
                    !.phase = "ended",
                    !.closes = IF lifespan.has_close THEN @ + 1 ELSE @,
                    !.close_failed = failed,
                    !.outcome = lifespan_outcome(lifespan.pending, failed)]
    /\ UNCHANGED <<directory, roles, stored, api_key, key_type, registered, active,
                   pc, op, args, snapshot, request, calls, result>>

ServerNext ==
    \/ load_server
    \/ lifespan_start
    \/ lifespan_exit
    \/ lifespan_cleanup
    \/ \E p \in Procs :
          \/ health_check_call(p)
          \/ health_check_probe(p)
          \/ tool_return(p)

ServerSpec == ServerInit /\ [][ServerNext]_vars

\* ------------------------------------------------- concurrent invocations
\* Two invocations of the message tools are in flight for the same chat room
\* while its membership changes.
ConcurrentRecipients == {<<"a">>, <<"A", ",", "b">>}

ConcurrentInit ==
    /\ directory \in Directories
    /\ roles = InitialRoles(directory)
    /\ stored = InitialStored
    /\ api_key = ServerKey
    /\ key_type = get_key_type(api_key)
    /\ registered = tool_groups(key_type)
    /\ lifespan = [NoLifespan EXCEPT !.phase = "running"]
    /\ active = Procs
    /\ pc = [p \in Procs |-> "idle"]
    /\ op = [p \in Procs |-> "none"]
    /\ args = [p \in Procs |-> NoArgs]
    /\ snapshot = [p \in Procs |-> NoSnapshot]
    /\ request = [p \in Procs |-> NoRequest]
    /\ calls = [p \in Procs |-> <<>>]
    /\ result = [p \in Procs |-> NoResult]

\* The chat room after one participant has joined it or one has left it.
MembershipChanges(members) ==
    {Append(members, q) : q \in {x \in ParticipantPool :
        /\ Len(members) < MaxParticipants
        /\ \A i \in 1..Len(members) : members[i] # x}}
    \cup {Pick(members, (1..Len(members)) \ {i}) : i \in 1..Len(members)}

\* Somebody joins or leaves the chat room.
membership_change ==
    /\ \E members \in MembershipChanges(directory) :
        /\ directory' = members
        /\ roles' = InitialRoles(members)
    /\ UNCHANGED <<stored, server, active, pc, op, args, snapshot, request, calls, result>>

\* The callers of the two invocations pass one of ConcurrentRecipients.
concurrent_send_user_chat_message_call(p) ==
    /\ send_user_chat_message_call(p)
    /\ args'[p].recipients \in ConcurrentRecipients

concurrent_create_chat_message_call(p) ==
    /\ create_chat_message_call(p)
    /\ args'[p].recipients \in ConcurrentRecipients
    /\ args'[p].message_type = None

\* Both invocations are made with the same API key, so by the same user.
concurrent_create_chat_message_profile(p) ==
    /\ create_chat_message_profile(p)
    /\ calls'[p][1].data \in {<<>>, <<"m", "e">>}

ConcurrentNext ==
    \/ membership_change
    \/ \E p \in Procs :
          \/ concurrent_send_user_chat_message_call(p)
          \/ send_user_chat_message_fetch(p)
          \/ send_user_chat_message_send(p)
          \/ concurrent_create_chat_message_call(p)
          \/ concurrent_create_chat_message_profile(p)
          \/ create_chat_message_fetch(p)
          \/ create_chat_message_send(p)

ConcurrentSpec == ConcurrentInit /\ [][ConcurrentNext]_vars

\* =================================================================== claims
\* Vocabulary of the claims, stated on the arguments, the snapshot and the
\* upstream calls rather than on the tools' intermediate values.
FetchApis == {"list_my_chat_participants", "list_chat_participants",
              "list_agent_chat_participants"}
SendApis == {"send_my_chat_message", "create_chat_message", "create_agent_chat_message"}

CallsTo(p, apis) == {i \in 1..Len(calls[p]) : calls[p][i].api \in apis}
FetchCalls(p) == Cardinality(CallsTo(p, FetchApis))
SendCalls(p) == Cardinality(CallsTo(p, SendApis))
SentMentions(p, i) == calls[p][i].message.mentions.items

\* The requested recipients: the comma-separated tokens that are not blank.
Requested(recipients) ==
    LET tokens == split(recipients)
        idx == {i \in 1..Len(tokens) : \E j \in 1..Len(tokens[i]) : tokens[i][j] # " "}
    IN [k \in 1..Cardinality(idx) |-> strip(Pick(tokens, idx)[k])]

SameIgnoringCase(x, y) ==
    /\ Len(x) = Len(y)
    /\ \A i \in 1..Len(x) : LowerChar(x[i]) = LowerChar(y[i])

\* q is a participant the human tool can reach under the requested name.
NameMatches(q, token) ==
    \E f \in {q.name, q.username, q.first_name} : Truthy(f) /\ SameIgnoringCase(f, token)

ByName(p) == op[p] = "send_user_chat_message"
ById(p) == op[p] = "create_chat_message"
AgentFreeText(p) == op[p] = "createAgentChatMessage" /\ args[p].mentions = NoMentions

\* The requested recipients of invocation p that match nobody in its snapshot.
Unmatched(p) ==
    LET req == Requested(args[p].recipients)
        people == snapshot[p].data
    IN {k \in 1..Len(req) :
          IF ById(p) THEN \A i \in 1..Len(people) : people[i].id # req[k]
          ELSE \A i \in 1..Len(people) : ~NameMatches(people[i], req[k])}

Mentioned(p, token) ==
    \E i \in 1..Len(result[p].names) :
        IF ById(p) THEN result[p].names[i] = token
        ELSE SameIgnoringCase(result[p].names[i], token)

\* C1: when a requested recipient matches no participant of the snapshot, the
\* tool raises an error that names every unmatched recipient, builds no
\* message request and never calls the send endpoint.
C1_UnmatchedFailsAtomically ==
    \A p \in Procs :
        ((ByName(p) \/ ById(p)) /\ snapshot[p].fetched /\ Unmatched(p) # {}) =>
            /\ pc[p] = "done"
            /\ result[p].kind = "ValueError"
            /\ \A k \in Unmatched(p) :
                  Mentioned(p, Requested(args[p].recipients)[k])
            /\ request[p] = NoRequest
            /\ SendCalls(p) = 0

\* One of two requested names matched and the other did not.
C1_Witness ==
    \E p \in Procs :
        /\ ByName(p) /\ snapshot[p].fetched
        /\ Len(Requested(args[p].recipients)) = 2
        /\ Cardinality(Unmatched(p)) = 1
        /\ result[p].kind = "ValueError"

IsStr(x) == x # None /\ x # Absent

\* C2 (as claimed): a recipients string with no non-blank token fails with a
\* validation error before the directory fetch and the send endpoint are called.
C2_BlankRecipientsNoCall ==
    \A p \in Procs :
        (/\ op[p] \in {"send_user_chat_message", "create_chat_message",
                       "createAgentChatMessage"}
         /\ args[p].mentions = NoMentions
         /\ IsStr(args[p].recipients)
         /\ Requested(args[p].recipients) = <<>>) =>
            /\ FetchCalls(p) = 0
            /\ SendCalls(p) = 0
            /\ pc[p] = "done" => result[p].kind = "ValueError"

\* C3: a send call of the free-text tool carries exactly one mention per
\* requested name; an invocation that ends without a send call ended in an error.
C3_AllOrNothing ==
    \A p \in Procs :
        (ByName(p) \/ AgentFreeText(p)) =>
            /\ \A i \in CallsTo(p, SendApis) :
                  Len(SentMentions(p, i)) = Len(Requested(args[p].recipients))
            /\ (pc[p] = "done" /\ SendCalls(p) = 0) =>
                  result[p].kind \in {"ValueError", "ApiError"}

\* The same participant requested twice is mentioned twice.
C3_Witness ==
    \E p \in Procs :
        /\ ByName(p) /\ result[p].kind = "Sent"
        /\ \E i \in CallsTo(p, SendApis) :
              /\ Len(SentMentions(p, i)) = 2
              /\ SentMentions(p, i)[1] = SentMentions(p, i)[2]

\* The pre-resolved path: a mentions JSON text whose entries are all complete.
Complete(entry) == entry.id # Absent /\ entry.name # Absent
PreResolved(p) ==
    /\ op[p] = "createAgentChatMessage"
    /\ args[p].mentions.kind = "json"
    /\ \A i \in 1..Len(args[p].mentions.entries) : Complete(args[p].mentions.entries[i])

SameEntries(mentions, entries) ==
    /\ Len(mentions) = Len(entries)
    /\ \A i \in 1..Len(entries) :
          mentions[i].id = entries[i].id /\ mentions[i].name = entries[i].name

\* C4: with pre-resolved mentions the sent message carries exactly the supplied
\* entries in their order, the send endpoint is called once and the directory
\* is never fetched.
C4_PreResolvedVerbatim ==
    \A p \in Procs :
        PreResolved(p) =>
            /\ FetchCalls(p) = 0
            /\ pc[p] # "done" => SendCalls(p) = 0
            /\ pc[p] = "done" => SendCalls(p) = 1
            /\ \A i \in CallsTo(p, SendApis) :
                  SameEntries(SentMentions(p, i), args[p].mentions.entries)

\* Two different entries were sent in the order given.
C4_Witness ==
    \E p \in Procs :
        /\ PreResolved(p) /\ result[p].kind = "Sent"
        /\ Len(args[p].mentions.entries) = 2
        /\ args[p].mentions.entries[1] # args[p].mentions.entries[2]

\* C5: when recipients and mentions are both supplied, the request is the one
\* the mentions alone give: no directory fetch, no validation error, whatever
\* the recipients name.
C5_MentionsTakePrecedence ==
    \A p \in Procs :
        (PreResolved(p) /\ IsStr(args[p].recipients)) =>
            /\ FetchCalls(p) = 0
            /\ pc[p] \in {"send", "done"}
            /\ result[p].kind # "ValueError"
            /\ request[p].content = args[p].content
            /\ ~request[p].mentions.is_none
            /\ SameEntries(request[p].mentions.items, args[p].mentions.entries)

\* The recipients named somebody who is not in the (empty) chat room.
C5_Witness ==
    \E p \in Procs :
        /\ PreResolved(p) /\ IsStr(args[p].recipients)
        /\ Requested(args[p].recipients) # <<>>
        /\ directory = <<>>
        /\ Len(args[p].mentions.entries) > 0
        /\ result[p].kind = "Sent"

\* C6: when every requested name equals, ignoring letter case, a name that
\* some participant of the snapshot is indexed under, resolution succeeds,
\* each mention carries the id of such a participant, and the message is sent.
C6_CaseInsensitiveMatch ==
    \A p \in Procs :
        (ByName(p) /\ snapshot[p].fetched /\ Unmatched(p) = {}) =>
            LET req == Requested(args[p].recipients)
                people == snapshot[p].data
            IN /\ pc[p] \in {"send", "done"}
               /\ result[p].kind # "ValueError"
               /\ pc[p] = "done" => SendCalls(p) = 1
               /\ \A k \in 1..Len(req) :
                     \E i \in 1..Len(people) :
                        /\ NameMatches(people[i], req[k])
                        /\ request[p].mentions.items[k].id = people[i].id

\* A message went out for a requested name that differs in letter case from
\* every name the participants carry.
C6_Witness ==
    \E p \in Procs :
        /\ ByName(p) /\ result[p].kind = "Sent"
        /\ \E k \in 1..Len(Requested(args[p].recipients)) :
              \A i \in 1..Len(snapshot[p].data) :
                 \A f \in {snapshot[p].data[i].name, snapshot[p].data[i].username,
                           snapshot[p].data[i].first_name} :
                    f # Requested(args[p].recipients)[k]

\* C7: the i-th mention of a sent message is the participant matched by the
\* i-th requested recipient, and there is one mention per requested recipient.
C7_RequestedOrder ==
    \A p \in Procs :
        (ByName(p) \/ ById(p)) =>
            \A c \in CallsTo(p, SendApis) :
                LET req == IF IsStr(args[p].recipients)
                           THEN Requested(args[p].recipients) ELSE <<>>
                    sent == SentMentions(p, c)
                    people == snapshot[p].data
                IN /\ Len(sent) = Len(req)
                   /\ \A k \in 1..Len(req) :
                         IF ById(p) THEN sent[k].id = req[k]
                         ELSE \E i \in 1..Len(people) :
                                 /\ people[i].id = sent[k].id
                                 /\ NameMatches(people[i], req[k])

\* Two participants were mentioned in the reverse of the directory's order.
C7_Witness ==
    \E p \in Procs :
        /\ ByName(p) /\ result[p].kind = "Sent"
        /\ Len(snapshot[p].data) = 2
        /\ \E c \in CallsTo(p, SendApis) :
              /\ Len(SentMentions(p, c)) = 2
              /\ SentMentions(p, c)[1].id = snapshot[p].data[2].id
              /\ SentMentions(p, c)[2].id = snapshot[p].data[1].id

\* A participant with no agent name and no first or last name.
Nameless(q) == ~Truthy(q.agent_name) /\ ~Truthy(q.first_name) /\ ~Truthy(q.last_name)

\* C8 (as claimed): a request for the literal id of a nameless participant of
\* the snapshot resolves to a mention of that participant.
C8_IdFallbackResolves ==
    \A p \in Procs :
        ((ByName(p) \/ ById(p)) /\ snapshot[p].fetched) =>
            \A i \in 1..Len(snapshot[p].data) :
                (/\ Nameless(snapshot[p].data[i])
                 /\ Requested(args[p].recipients) = <<snapshot[p].data[i].id>>) =>
                    /\ result[p].kind # "ValueError"
                    /\ Len(request[p].mentions.items) = 1
                    /\ request[p].mentions.items[1].id = snapshot[p].data[i].id

\* C9: a MentionRequired tool called with neither recipients nor mentions
\* raises a ValueError about the missing recipients and makes no upstream call.
C9_MissingRecipientsRejected ==
    \A p \in Procs :
        (/\ op[p] \in {"send_user_chat_message", "createAgentChatMessage"}
         /\ args[p].recipients = None
         /\ args[p].mentions = NoMentions) =>
            /\ pc[p] = "done"
            /\ result[p].kind = "ValueError"
            /\ result[p].msg \in {"recipients is required", "Missing recipients or mentions"}
            /\ calls[p] = <<>>

\* The human tool was called without recipients.
C9_Witness ==
    \E p \in Procs :
        /\ ByName(p) /\ args[p].recipients = None
        /\ pc[p] = "done"

\* C10: a mentions text that is not JSON, or that has an entry lacking id or
\* name, raises a ValueError (naming the lacking field) and neither the
\* directory fetch nor the send endpoint is called.
C10_MalformedMentionsRejected ==
    \A p \in Procs :
        (/\ op[p] = "createAgentChatMessage"
         /\ args[p].mentions # NoMentions
         /\ ~PreResolved(p)) =>
            /\ pc[p] = "done"
            /\ result[p].kind = "ValueError"
            /\ IF args[p].mentions.kind = "invalid_json"
               THEN result[p].msg = "Invalid JSON for mentions"
               ELSE \E i \in 1..Len(args[p].mentions.entries) :
                       \/ result[p].field = "id" /\ args[p].mentions.entries[i].id = Absent
                       \/ result[p].field = "name" /\ args[p].mentions.entries[i].name = Absent
            /\ FetchCalls(p) = 0
            /\ SendCalls(p) = 0

\* A complete entry was followed by one that lacks its name.
C10_Witness ==
    \E p \in Procs :
        /\ op[p] = "createAgentChatMessage"
        /\ args[p].mentions.kind = "json"
        /\ Len(args[p].mentions.entries) = 2
        /\ Complete(args[p].mentions.entries[1])
        /\ args[p].mentions.entries[2].name = Absent
        /\ result[p].kind = "ValueError"

\* The invocation's call to a send endpoint raised.
SendFailed(p) == \E i \in CallsTo(p, SendApis) : calls[p][i].outcome = "error"

\* C11: when the upstream send-message call fails, the tool raises an error
\* that is the upstream error wrapped with the prefix 'Failed to send
\* message: ', and it does not return a success result.
C11_SendFailureWrapped ==
    \A p \in Procs :
        SendFailed(p) =>
            /\ result[p].kind = "RuntimeError"
            /\ result[p].msg = "Failed to send message: "
            /\ result[p].cause.kind = "ApiError"
            /\ result[p].cause.api \in SendApis

\* The invocation's call to a directory fetch endpoint raised.
FetchFailed(p) == \E i \in CallsTo(p, FetchApis) : calls[p][i].outcome = "error"

\* C12: when the directory fetch fails, the invocation fails at once with
\* that upstream error unchanged: the fetch is not made again, nothing is
\* resolved, no request is built and the send endpoint is not called.
C12_FetchFailurePropagates ==
    \A p \in Procs :
        FetchFailed(p) =>
            /\ pc[p] = "done"
            /\ result[p] = [kind |-> "ApiError", api |-> calls[p][Len(calls[p])].api]
            /\ FetchCalls(p) = 1
            /\ SendCalls(p) = 0
            /\ ~snapshot[p].fetched
            /\ request[p] = NoRequest

\* A fetch for a named recipient raised, in a chat room that has participants.
C12_Witness ==
    \E p \in Procs :
        /\ FetchFailed(p)
        /\ ByName(p)
        /\ Requested(args[p].recipients) # <<>>
        /\ directory # <<>>

\* The recipients were given as free text that names at least one of them.
FreeText(p) ==
    /\ ByName(p) \/ ById(p) \/ AgentFreeText(p)
    /\ IsStr(args[p].recipients)
    /\ Requested(args[p].recipients) # <<>>

\* C13: every upstream call is a single attempt.  Within one invocation
\* each endpoint (directory fetch, who-am-I, send message, create event,
\* create chat) is called at most once whatever its outcome, and a
\* free-text send that succeeded made exactly one directory fetch of its
\* own, which answered, and after it exactly one send call.
C13_SingleAttempt ==
    \A p \in Procs :
        /\ \A i, j \in 1..Len(calls[p]) : calls[p][i].api = calls[p][j].api => i = j
        /\ (FreeText(p) /\ result[p].kind = "Sent") =>
              /\ FetchCalls(p) = 1
              /\ SendCalls(p) = 1
              /\ \E i \in CallsTo(p, FetchApis), j \in CallsTo(p, SendApis) :
                    /\ i < j
                    /\ calls[p][i].outcome = "ok"
                    /\ calls[p][j].outcome = "ok"
                    /\ snapshot[p].fetched

\* A free-text send succeeded after its fetch and its send call.
C13_Witness ==
    \E p \in Procs :
        /\ FreeText(p)
        /\ result[p].kind = "Sent"
        /\ Len(calls[p]) >= 2
        /\ directory # <<>>

EventOps == {"createAgentChatEvent", "create_agent_chat_event"}
EventCalls(p) == CallsTo(p, {"create_agent_chat_event"})
ValidEventType(t) == \E v \in VALID_EVENT_TYPES : SameIgnoringCase(t, v)

\* C15: the create-event tools accept the message type case-insensitively.
\* A type whose lower-case form is one of tool_call, tool_result, thought,
\* error, task is sent upstream in that lower-case form; any other type
\* raises a ValueError that names the type given, and the create-event
\* endpoint is not called.
C15_EventTypeCaseInsensitive ==
    \A p \in Procs :
        op[p] \in EventOps =>
            IF ValidEventType(args[p].message_type)
            THEN /\ \A i \in EventCalls(p) :
                       /\ calls[p][i].message.message_type \in VALID_EVENT_TYPES
                       /\ SameIgnoringCase(calls[p][i].message.message_type,
                                           args[p].message_type)
                 /\ result[p].kind = "ValueError" =>
                       result[p].msg = "Invalid JSON for metadata"
                 /\ (pc[p] = "done" /\ result[p].kind # "ValueError") =>
                       Cardinality(EventCalls(p)) = 1
            ELSE /\ pc[p] = "done"
                 /\ result[p].kind = "ValueError"
                 /\ result[p].msg \in {"Invalid messageType", "Invalid message_type"}
                 /\ result[p].names = <<args[p].message_type>>
                 /\ EventCalls(p) = {}

\* An event whose type was written in capitals was created as 'thought'.
C15_Witness ==
    \E p \in Procs :
        /\ op[p] \in EventOps
        /\ args[p].message_type = <<"T", "H", "O", "U", "G", "H", "T">>
        /\ \E i \in EventCalls(p) :
              /\ calls[p][i].message.message_type = <<"t", "h", "o", "u", "g", "h", "t">>
              /\ calls[p][i].outcome = "ok"

\* The metadata argument was left out, is a text json.loads rejects, or is a
\* text json.loads accepts.
MetadataAbsent(m) == m = None
MetadataInvalid(m) == m # None /\ ~json_loads(m).ok
MetadataValid(m) == m # None /\ json_loads(m).ok

\* C16 as stated: metadata that is not valid JSON raises ValueError 'Invalid
\* JSON for metadata' and the endpoint is not called; absent metadata is
\* sent as None; valid JSON is sent as the parsed object.
C16_MetadataParsed ==
    \A p \in Procs :
        (op[p] \in EventOps /\ ValidEventType(args[p].message_type)) =>
            /\ MetadataInvalid(args[p].metadata) =>
                  /\ pc[p] = "done"
                  /\ result[p] = ValueError("Invalid JSON for metadata", <<>>, <<>>)
                  /\ EventCalls(p) = {}
            /\ MetadataAbsent(args[p].metadata) =>
                  /\ result[p].kind # "ValueError"
                  /\ \A i \in EventCalls(p) : calls[p][i].message.metadata = NoMetadata
            /\ MetadataValid(args[p].metadata) =>
                  /\ result[p].kind # "ValueError"
                  /\ \A i \in EventCalls(p) :
                        calls[p][i].message.metadata = json_loads(args[p].metadata).value

\* C16 amended: the empty string counts as absent metadata.  Non-empty
\* metadata that is not valid JSON raises ValueError 'Invalid JSON for
\* metadata' and the endpoint is not called; absent or empty metadata is
\* sent as None; non-empty valid JSON is sent as the parsed object.
C16_MetadataParsedUnlessEmpty ==
    \A p \in Procs :
        (op[p] \in EventOps /\ ValidEventType(args[p].message_type)) =>
            /\ (MetadataInvalid(args[p].metadata) /\ args[p].metadata # <<>>) =>
                  /\ pc[p] = "done"
                  /\ result[p] = ValueError("Invalid JSON for metadata", <<>>, <<>>)
                  /\ EventCalls(p) = {}
            /\ (MetadataAbsent(args[p].metadata) \/ args[p].metadata = <<>>) =>
                  /\ result[p].kind # "ValueError"
                  /\ \A i \in EventCalls(p) : calls[p][i].message.metadata = NoMetadata
                  /\ pc[p] = "done" => Cardinality(EventCalls(p)) = 1
            /\ MetadataValid(args[p].metadata) =>
                  /\ result[p].kind # "ValueError"
                  /\ \A i \in EventCalls(p) :
                        calls[p][i].message.metadata = json_loads(args[p].metadata).value
                  /\ pc[p] = "done" => Cardinality(EventCalls(p)) = 1

\* An event was created with the object parsed from its metadata text.
C16_Witness ==
    \E p \in Procs :
        /\ op[p] \in EventOps
        /\ args[p].metadata = <<" ", "{", "}", " ">>
        /\ \E i \in EventCalls(p) :
              /\ calls[p][i].message.metadata.type = "dict"
              /\ calls[p][i].outcome = "ok"

\* The create endpoints, and an invocation whose create call answered
\* without data.
CreateApis == {"create_agent_chat_event", "create_agent_chat"}
CreatedWithoutData(p) ==
    \E i \in CallsTo(p, CreateApis) : calls[p][i].outcome = "nodata"

\* C17: when the upstream create call succeeds but its response has no
\* data, every create tool (create chat event, create agent chat) raises a
\* RuntimeError '<thing> created but data not available'.
C17_CreatedButNoData ==
    \A p \in Procs :
        CreatedWithoutData(p) =>
            /\ pc[p] = "done"
            /\ result[p].kind = "RuntimeError"
            /\ result[p].msg \in {"Event created but data not available in response",
                                  "Chat room created but data not available"}

\* The add-participant tools, their endpoints, and a call that names no role.
AddOps == {"add_chat_participant", "add_user_chat_participant"}
AddApis == {"add_chat_participant", "add_my_chat_participant"}
AddCalls(p) == CallsTo(p, AddApis)
RoleUnspecified(p) == args[p].role \in {Absent, None}

\* The participant the invocation names is in the chat room with this role.
InChatWithRole(p, role) ==
    \E k \in 1..Len(directory) :
        /\ directory[k].id = args[p].participant_id
        /\ roles[k] = role

ValidRole(r) == \E v \in UpstreamRoles : SameIgnoringCase(r, v)

\* C19: the add-participant tool validates the role case-insensitively
\* against owner, admin, member: an accepted role is sent in lower case, and
\* any other role raises ValueError 'Invalid role: <role>' without calling
\* the add-participant endpoint.
C19_RoleValidated ==
    \A p \in Procs :
        (op[p] \in AddOps /\ Truthy(args[p].role)) =>
            IF ValidRole(args[p].role)
            THEN \A i \in AddCalls(p) :
                    /\ calls[p][i].message.role \in UpstreamRoles
                    /\ SameIgnoringCase(calls[p][i].message.role, args[p].role)
            ELSE /\ AddCalls(p) = {}
                 /\ pc[p] = "done" =>
                       /\ result[p].kind = "ValueError"
                       /\ result[p].msg = "Invalid role"
                       /\ result[p].names = <<args[p].role>>

\* The configured key begins with these characters.
KeyBegins(chars) ==
    /\ Len(api_key) >= Len(chars)
    /\ \A i \in 1..Len(chars) : api_key[i] = chars[i]

\* C20: get_key_type maps a key by its most specific prefix: 'thnv_u_'
\* gives user, 'thnv_a_' gives agent, any other 'thnv_' key gives legacy,
\* and everything else, the empty key included, gives unknown.
C20_KeyTypeByPrefix ==
    key_type # "unset" =>
        /\ key_type = "user" <=> KeyBegins(<<"t", "h", "n", "v", "_", "u", "_">>)
        /\ key_type = "agent" <=> KeyBegins(<<"t", "h", "n", "v", "_", "a", "_">>)
        /\ key_type = "legacy" <=>
              /\ KeyBegins(<<"t", "h", "n", "v", "_">>)
              /\ ~KeyBegins(<<"t", "h", "n", "v", "_", "u", "_">>)
              /\ ~KeyBegins(<<"t", "h", "n", "v", "_", "a", "_">>)
        /\ key_type = "unknown" <=> ~KeyBegins(<<"t", "h", "n", "v", "_">>)
        /\ api_key = <<>> => key_type = "unknown"

\* A user key was classified: it also starts with the legacy prefix.
C20_Witness ==
    /\ key_type = "user"
    /\ Len(api_key) = 9
    /\ SubSeq(api_key, 1, 5) = <<"t", "h", "n", "v", "_">>

\* C21: the registered tool groups are fixed once, at startup, from the key
\* type and never change afterwards: the agent tools are registered exactly
\* when the key type is agent or legacy, the human tools exactly when it is
\* user or legacy, and with an unknown key neither is (only health_check).
C21_ToolGroupsFixedAtStartup ==
    /\ [](key_type # "unset" =>
            /\ "agent" \in registered <=> key_type \in {"agent", "legacy"}
            /\ "human" \in registered <=> key_type \in {"user", "legacy"}
            /\ "health_check" \in registered
            /\ key_type = "unknown" => registered = {"health_check"})
    /\ [][key_type # "unset" => (registered' = registered /\ key_type' = key_type)]_vars

\* A legacy key was loaded, both groups are registered, and the server has
\* since served a health check.
C21_Witness ==
    /\ key_type = "legacy"
    /\ registered = {"agent", "human", "health_check"}
    /\ \E p \in Procs : pc[p] = "done" /\ op[p] = "health_check"

\* The update tools, their endpoints and the entity each of them addresses.
UpdateOps == {"update_agent", "update_chat", "update_tool"}
UpdateApis == {"update_agent", "update_chat", "tools_controller_update"}
Entity(p) ==
    IF op[p] = "update_agent" THEN "agent"
    ELSE IF op[p] = "update_chat" THEN "chat"
    ELSE "tool"

\* C22: the update tools send upstream only the fields the caller provided.
\* A parameter left as None does not appear in the update request, and the
\* stored field it stands for keeps the value it had before the update.
C22_UpdateSendsOnlyProvided ==
    \A p \in Procs :
        op[p] \in UpdateOps =>
            /\ \A i \in CallsTo(p, UpdateApis) :
                  \A f \in DOMAIN calls[p][i].message : args[p].fields[f] # None
            /\ \A f \in DOMAIN args[p].fields :
                  args[p].fields[f] = None => stored[Entity(p)][f] = OldValue(f)

\* update_chat was given a title and no status: the stored title changed
\* and the stored status did not.
C22_Witness ==
    \E p \in Procs :
        /\ op[p] = "update_chat"
        /\ args[p].fields["title"] = <<"n">>
        /\ args[p].fields["status"] = None
        /\ result[p].kind = "Updated"
        /\ stored["chat"]["title"] = <<"n">>
        /\ stored["chat"]["status"] = <<"o">>


\* The positions in the fetched list of the participants that contribute the
\* lower-cased name k to the index.
Contributors(people, k) == {i \in 1..Len(people) : NameMatches(people[i], k)}
LastContributor(people, k) ==
    CHOOSE i \in Contributors(people, k) : \A j \in Contributors(people, k) : j <= i

\* C23: the display-name index maps each lower-cased name to exactly one
\* participant.  When several participants contribute the same lower-cased
\* name, the one latest in the fetched order holds the entry, and a request
\* for that name resolves to that participant without an error.
C23_LastParticipantWins ==
    \A p \in Procs :
        (ByName(p) /\ snapshot[p].fetched) =>
            LET people == snapshot[p].data
                index == name_to_participant(people)
                names == recipient_names(args[p].recipients)
            IN /\ \A i, j \in 1..Len(index) : index[i].key = index[j].key => i = j
               /\ \A i \in 1..Len(people) :
                     \A f \in {people[i].name, people[i].username, people[i].first_name} :
                        Truthy(f) => DictHas(index, lower(f))
               /\ \A i \in 1..Len(index) :
                     /\ Contributors(people, index[i].key) # {}
                     /\ index[i].val = people[LastContributor(people, index[i].key)]
               /\ (\A k \in 1..Len(names) : Contributors(people, names[k]) # {}) =>
                     /\ result[p].kind # "ValueError"
                     /\ request[p] # NoRequest
                     /\ Len(request[p].mentions.items) = Len(names)
                     /\ \A k \in 1..Len(names) :
                           request[p].mentions.items[k].id =
                              people[LastContributor(people, names[k])].id

\* Two participants share the lower-cased name "a"; the message sent to
\* "A" mentions the later one.
C23_Witness ==
    \E p \in Procs :
        /\ ByName(p)
        /\ result[p].kind = "Sent"
        /\ Len(snapshot[p].data) = 2
        /\ snapshot[p].data[1].id = <<"a", "b">>
        /\ snapshot[p].data[2].id = <<"a", "a">>
        /\ args[p].recipients = <<"A">>
        /\ Cardinality(Contributors(snapshot[p].data, <<"a">>)) = 2
        /\ result[p].message.mentions.items = <<Mention(<<"a", "a">>, <<"A", "b">>)>>


\* The elements of a list.
Range(s) == {s[i] : i \in 1..Len(s)}

\* C24: on an unmatched-name failure the error enumerates exactly the
\* unmatched requested names, every one of them in requested order and none
\* that matched, followed by the available display names: each distinct
\* display name present in the directory, once.
C24_ErrorListsUnmatchedAndAvailable ==
    \A p \in Procs :
        (ByName(p) /\ result[p].kind = "ValueError" /\ result[p].msg = "Not found") =>
            LET people == snapshot[p].data
                req == Requested(args[p].recipients)
                missing == Pick(req, Unmatched(p))
                listed == result[p].available
            IN /\ Len(result[p].names) = Len(missing)
               /\ \A k \in 1..Len(missing) :
                     SameIgnoringCase(result[p].names[k], missing[k])
               /\ \A i, j \in 1..Len(listed) : listed[i] = listed[j] => i = j
               /\ Range(listed) = {derived_display_name(people[i]) : i \in 1..Len(people)}


\* C25: the name stored in a resolved mention is the matched participant's
\* derived display name (agent name for an agent, else first and last name,
\* else the id) in its original letter case, whichever alias and letter case
\* the caller used to reach the participant.
C25_MentionCarriesDisplayName ==
    \A p \in Procs :
        ByName(p) =>
            \A i \in CallsTo(p, SendApis) :
                \A k \in 1..Len(SentMentions(p, i)) :
                    \E j \in 1..Len(snapshot[p].data) :
                        /\ snapshot[p].data[j].id = SentMentions(p, i)[k].id
                        /\ SentMentions(p, i)[k].name =
                              derived_display_name(snapshot[p].data[j])


\* The text '@name1 ... @namen ' for a list of mentions.
RECURSIVE MentionPrefix(_)
MentionPrefix(mentions) ==
    IF mentions = <<>> THEN <<>>
    ELSE <<"@">> \o mentions[1].username \o <<" ">> \o MentionPrefix(Tail(mentions))

\* C26: create_chat_message treats mentions as optional.  Without
\* recipient_ids it sends the content unchanged and no mentions; with
\* recipient ids that are all participants it sends the content prefixed by
\* '@name1 ... @namen ' in recipient order, with one mention per recipient;
\* either way the message type is the supplied one, or 'text' when none is.
C26_MentionOptional ==
    \A p \in Procs :
        ById(p) =>
            \A i \in CallsTo(p, SendApis) :
                LET sent == calls[p][i].message
                    rids == Requested(args[p].recipients)
                IN /\ sent.message_type =
                         (IF args[p].message_type = None THEN TextType
                          ELSE args[p].message_type)
                   /\ ~Truthy(args[p].recipients) =>
                         /\ sent.content = args[p].content
                         /\ sent.mentions = NoneList
                   /\ (Truthy(args[p].recipients) /\ rids # <<>>) =>
                         /\ snapshot[p].fetched
                         /\ Unmatched(p) = {}
                         /\ Len(sent.mentions.items) = Len(rids)
                         /\ \A k \in 1..Len(rids) :
                               /\ sent.mentions.items[k].id = rids[k]
                               /\ \E j \in 1..Len(snapshot[p].data) :
                                     /\ snapshot[p].data[j].id = rids[k]
                                     /\ sent.mentions.items[k].username =
                                           map_display_name(snapshot[p].data[j])
                         /\ sent.content =
                               MentionPrefix(sent.mentions.items) \o args[p].content

\* The agent "A" and the user "b" are addressed in that order: the message
\* sent starts with '@a @b ' and is of the default type.
C26_Witness ==
    \E p \in Procs :
        /\ ById(p)
        /\ args[p].recipients = <<"A", ",", "b">>
        /\ args[p].message_type = None
        /\ result[p].kind = "Sent"
        /\ result[p].message.content = <<"@", "a", " ", "@", "b", " ", "b">>
        /\ Len(result[p].message.mentions.items) = 2
        /\ result[p].message.message_type = TextType


C28_LifespanClosesClient ==
    /\ lifespan.phase # "ended" => lifespan.closes = 0
    /\ lifespan.phase = "ended" =>
          /\ lifespan.closes = (IF lifespan.has_close THEN 1 ELSE 0)
          /\ lifespan.pending = "none" => lifespan.outcome = "returned"
          /\ lifespan.pending # "none" => lifespan.outcome = lifespan.pending

\* An exception went through the lifespan and close failed as well: close
\* was called once and the exception of the body is the one that leaves.
C28_Witness ==
    /\ lifespan.phase = "ended"
    /\ lifespan.has_close
    /\ lifespan.pending = "Exception"
    /\ lifespan.close_failed
    /\ lifespan.closes = 1
    /\ lifespan.outcome = "Exception"


\* The tools that resolve recipients against the participants they fetch.
Resolving(p) == ByName(p) \/ ById(p)

\* C29: every mention in a message sent by a recipient-resolving tool
\* carries the id of a participant of the snapshot that the same invocation
\* fetched; no mention id is invented, taken from the caller's text or taken
\* from the snapshot of another invocation.
C29_MentionIdsFromOwnSnapshot ==
    \A p \in Procs :
        Resolving(p) =>
            \A i \in CallsTo(p, SendApis) :
                LET mentions == calls[p][i].message.mentions.items
                IN \A k \in 1..Len(mentions) :
                      /\ snapshot[p].fetched
                      /\ \E j \in 1..Len(snapshot[p].data) :
                            snapshot[p].data[j].id = mentions[k].id

\* Invocation 1 has sent a mention of a participant of its snapshot who is
\* in the chat room no longer and is unknown to invocation 2's snapshot.
C29_Witness ==
    /\ Resolving(1)
    /\ result[1].kind = "Sent"
    /\ Len(result[1].message.mentions.items) = 1
    /\ result[1].message.mentions.items[1].id = <<"a", "a">>
    /\ snapshot[2].fetched
    /\ \A j \in 1..Len(snapshot[2].data) : snapshot[2].data[j].id # <<"a", "a">>
    /\ \A j \in 1..Len(directory) : directory[j].id # <<"a", "a">>


\* What invocation p of the human send tool does and answers, as its own
\* arguments and its own snapshot determine it.
OwnOutcome(p) ==
    LET people == snapshot[p].data
        req == Requested(args[p].recipients)
    IN IF Unmatched(p) # {}
       THEN /\ pc[p] = "done"
            /\ result[p].kind = "ValueError"
            /\ request[p] = NoRequest
            /\ Len(result[p].names) = Cardinality(Unmatched(p))
            /\ \A k \in 1..Len(result[p].names) :
                  SameIgnoringCase(result[p].names[k], Pick(req, Unmatched(p))[k])
       ELSE /\ result[p].kind # "ValueError"
            /\ request[p].content = args[p].content
            /\ Len(request[p].mentions.items) = Len(req)
            /\ \A k \in 1..Len(req) :
                  request[p].mentions.items[k].id =
                     people[LastContributor(people, req[k])].id
            /\ \A i \in CallsTo(p, SendApis) : calls[p][i].message = request[p]

\* A step touches the variables of one invocation only, the snapshot an
\* invocation keeps is the membership at its own fetch, and no invocation
\* changes the membership.
OwnStep ==
    /\ \A p \in Procs :
          /\ snapshot'[p] # snapshot[p] =>
                /\ pc[p] = "fetch"
                /\ snapshot'[p] = Snapshot(directory)
          /\ pc'[p] = pc[p] =>
                /\ op'[p] = op[p]
                /\ args'[p] = args[p]
                /\ snapshot'[p] = snapshot[p]
                /\ request'[p] = request[p]
                /\ calls'[p] = calls[p]
                /\ result'[p] = result[p]
    /\ pc' # pc => directory' = directory

\* C30: concurrent send invocations for one chat room share no mutable
\* state.  Under every interleaving of their steps, and when the membership
\* changes between those steps, what an invocation sends or the error it
\* raises is determined by its own arguments and the snapshot its own fetch
\* returned.
C30_InvocationsIndependent ==
    /\ [](\A p \in Procs : (ByName(p) /\ snapshot[p].fetched) => OwnOutcome(p))
    /\ [][OwnStep]_vars

\* Two invocations asked for "a"; the membership changed between their
\* fetches, so one has sent its message and the other has failed.
C30_Witness ==
    /\ ByName(1) /\ ByName(2)
    /\ args[1].recipients = <<"a">> /\ args[2].recipients = <<"a">>
    /\ snapshot[1].fetched /\ snapshot[2].fetched
    /\ snapshot[1] # snapshot[2]
    /\ result[1].kind = "Sent"
    /\ result[2].kind = "ValueError"
====
